---- MODULE Spec2Model ----
(***************************************************************************)
(* Model of scripts/fix_unwraps.py (class UnwrapFixer).  Text is modelled  *)
(* as sequences of one-character strings so that searching, stripping and  *)
(* replacing are computed character by character, as str and re do.        *)
(***************************************************************************)
EXTENDS Integers, Sequences, FiniteSets, TLC

\* ------------------------------------------------------------------------
\* Literals of the source
\* ------------------------------------------------------------------------
\* unwrap_pattern, r'\.unwrap\(\)', and the text suggest_unwrap_fix replaces
DotUnwrap ==
    <<".", "u", "n", "w", "r", "a", "p", "(", ")">>
\* expect_pattern, r'\.expect\("([^"]*)"\)': the literal before the group
ExpectOpen ==
    <<".", "e", "x", "p", "e", "c", "t", "(", "\"">>
\* the literal after the group of expect_pattern and of the panic message pattern
QuoteClose ==
    <<"\"", ")">>
\* panic_pattern, r'panic!\('
PanicOpen ==
    <<"p", "a", "n", "i", "c", "!", "(">>
\* the literal before the group of r'panic!\("([^"]*)"\)'
PanicMsgOpen ==
    <<"p", "a", "n", "i", "c", "!", "(", "\"">>
\* test_pattern, first alternative
CfgTest ==
    <<"#", "[", "c", "f", "g", "(", "t", "e", "s", "t", ")", "]">>
\* test_pattern, second alternative
TestAttr ==
    <<"#", "[", "t", "e", "s", "t", "]">>
\* test_pattern, third alternative
ModTests ==
    <<"m", "o", "d", " ", "t", "e", "s", "t", "s">>
CommentStart ==
    <<"/", "/">>
NameTest ==
    <<"t", "e", "s", "t">>
DirTests ==
    <<"t", "e", "s", "t", "s">>
RsSuffix ==
    <<".", "r", "s">>
Slash ==
    <<"/">>
NL ==
    <<"\n">>
LockUnwrap ==
    <<"l", "o", "c", "k", "(", ")", ".", "u", "n", "w", "r", "a", "p", "(", ")">>
ParseUnwrap ==
    <<"p", "a", "r", "s", "e", "(", ")", ".", "u", "n", "w", "r", "a", "p", "(", ")">>
ToStringUnwrap ==
    <<"t", "o", "_", "s", "t", "r", "i", "n", "g", "(", ")", ".", "u", "n", "w", "r", "a", "p",
      "(", ")">>
LockFix ==
    <<".", "m", "a", "p", "_", "e", "r", "r", "(", "|", "e", "|", " ", "S", "t", "o", "r", "a",
      "g", "e", "E", "r", "r", "o", "r", ":", ":", "L", "o", "c", "k", "E", "r", "r", "o", "r",
      "(", "e", ".", "t", "o", "_", "s", "t", "r", "i", "n", "g", "(", ")", ")", ")", "?">>
ParseFix ==
    <<".", "m", "a", "p", "_", "e", "r", "r", "(", "|", "e", "|", " ", "V", "a", "l", "i", "d",
      "a", "t", "i", "o", "n", "E", "r", "r", "o", "r", ":", ":", "P", "a", "r", "s", "e", "E",
      "r", "r", "o", "r", "(", "e", ".", "t", "o", "_", "s", "t", "r", "i", "n", "g", "(", ")",
      ")", ")", "?">>
ConversionFix ==
    <<".", "m", "a", "p", "_", "e", "r", "r", "(", "|", "_", "|", " ", "V", "a", "l", "i", "d",
      "a", "t", "i", "o", "n", "E", "r", "r", "o", "r", ":", ":", "C", "o", "n", "v", "e", "r",
      "s", "i", "o", "n", "E", "r", "r", "o", "r", ")", "?">>
BareFix ==
    <<"?">>
ExpectFixOpen ==
    <<".", "o", "k", "_", "o", "r", "_", "e", "l", "s", "e", "(", "|", "|", " ", "V", "a", "l",
      "i", "d", "a", "t", "i", "o", "n", "E", "r", "r", "o", "r", ":", ":", "I", "n", "v", "a",
      "l", "i", "d", "I", "n", "p", "u", "t", "(", "\"">>
ExpectFixClose ==
    <<"\"", ".", "t", "o", "_", "s", "t", "r", "i", "n", "g", "(", ")", ")", ")", "?">>
PanicFixOpen ==
    <<"r", "e", "t", "u", "r", "n", " ", "E", "r", "r", "(", "S", "u", "p", "e", "r", "n", "o",
      "v", "a", "E", "r", "r", "o", "r", ":", ":", "I", "n", "t", "e", "r", "n", "a", "l", "E",
      "r", "r", "o", "r", "(", "\"">>
PanicFixClose ==
    <<"\"", ".", "t", "o", "_", "s", "t", "r", "i", "n", "g", "(", ")", ")", ")", ";">>
UnexpectedError ==
    <<"U", "n", "e", "x", "p", "e", "c", "t", "e", "d", " ", "e", "r", "r", "o", "r">>
ScriptHeader ==
    <<"#", "!", "/", "b", "i", "n", "/", "b", "a", "s", "h", "\n", "#", " ", "S", "c", "r",
      "i", "p", "t", " ", "t", "o", " ", "a", "p", "p", "l", "y", " ", "u", "n", "w", "r", "a",
      "p", " ", "f", "i", "x", "e", "s", "\n", "#", " ", "R", "e", "v", "i", "e", "w", " ",
      "e", "a", "c", "h", " ", "c", "h", "a", "n", "g", "e", " ", "b", "e", "f", "o", "r", "e",
      " ", "r", "u", "n", "n", "i", "n", "g", "!", "\n", "\n">>
FixesFor ==
    <<"\n", "#", " ", "F", "i", "x", "e", "s", " ", "f", "o", "r", " ">>
HashLine ==
    <<"#", " ", "L", "i", "n", "e", " ">>
ReplaceUnwrap ==
    <<":", " ", "R", "e", "p", "l", "a", "c", "e", " ", "u", "n", "w", "r", "a", "p", "(", ")",
      "\n">>
ReplaceExpect ==
    <<":", " ", "R", "e", "p", "l", "a", "c", "e", " ", "e", "x", "p", "e", "c", "t", "(", ")",
      "\n">>
ReplacePanic ==
    <<":", " ", "R", "e", "p", "l", "a", "c", "e", " ", "p", "a", "n", "i", "c", "!", "\n">>
SedCommand ==
    <<"#", " ", "s", "e", "d", " ", "-", "i", " ", "'", "'", " ", "'", "s", "/", "\\", ".",
      "u", "n", "w", "r", "a", "p", "(", ")", "/", "\\", "?", "/", "g", "'", " ">>
ManualFix ==
    <<"#", " ", "M", "a", "n", "u", "a", "l", " ", "f", "i", "x", " ", "n", "e", "e", "d", "e",
      "d", "\n">>
\* printable ASCII characters in code-point order (str comparison in sorted())
Ascii ==
    <<" ", "!", "\"", "#", "$", "%", "&", "'", "(", ")", "*", "+", ",", "-", ".", "/", "0",
      "1", "2", "3", "4", "5", "6", "7", "8", "9", ":", ";", "<", "=", ">", "?", "@", "A", "B",
      "C", "D", "E", "F", "G", "H", "I", "J", "K", "L", "M", "N", "O", "P", "Q", "R", "S", "T",
      "U", "V", "W", "X", "Y", "Z", "[", "\\", "]", "^", "_", "a", "b", "c", "d", "e", "f",
      "g", "h", "i", "j", "k", "l", "m", "n", "o", "p", "q", "r", "s", "t", "u", "v", "w", "x",
      "y", "z", "{", "|", "}", "~">>
Digits ==
    <<"0", "1", "2", "3", "4", "5", "6", "7", "8", "9">>

\* ------------------------------------------------------------------------
\* str and re operations
\* ------------------------------------------------------------------------

\* s[i:].startswith(p), i 1-based
MatchAt(p, s, i) ==
    /\ i >= 1
    /\ i + Len(p) - 1 <= Len(s)
    /\ SubSeq(s, i, i + Len(p) - 1) = p

\* p in s (and re.search of a pattern that is one literal)
Contains(s, p) ==
    \E k \in 1..Len(s) : MatchAt(p, s, k)

\* the first position >= from where p occurs in s, or 0
FindFrom(s, p, from) ==
    LET hits == {k \in from..Len(s) : MatchAt(p, s, k)}
    IN  IF hits = {} THEN 0 ELSE CHOOSE k \in hits : \A m \in hits : k <= m

EndsWith(s, p) ==
    /\ Len(p) <= Len(s)
    /\ SubSeq(s, Len(s) - Len(p) + 1, Len(s)) = p

StartsWith(s, p) ==
    MatchAt(p, s, 1)

Whitespace ==
    {" ", "\t", "\n", "\r"}

\* str.strip()
Strip(s) ==
    LET keep == {k \in 1..Len(s) : s[k] \notin Whitespace}
    IN  IF keep = {} THEN <<>>
        ELSE SubSeq(s, CHOOSE k \in keep : \A m \in keep : k <= m,
                       CHOOSE k \in keep : \A m \in keep : k >= m)

\* str.replace(old, new): every non-overlapping occurrence, left to right
RECURSIVE ReplaceFrom(_, _, _, _)
ReplaceFrom(s, old, new, from) ==
    LET k == FindFrom(s, old, from)
    IN  IF k = 0 THEN SubSeq(s, from, Len(s))
        ELSE SubSeq(s, from, k - 1) \o new \o ReplaceFrom(s, old, new, k + Len(old))

Replace(s, old, new) ==
    ReplaceFrom(s, old, new, 1)

\* re.search of  open ([^"]*) ")  : <<start, quote>> of the leftmost match,
\* quote being the position of the closing quote, or <<0, 0>>
QuotedSearch(open, s) ==
    LET closes(k) == FindFrom(s, <<"\"">>, k + Len(open))
        hits == {k \in 1..Len(s) :
                    /\ MatchAt(open, s, k)
                    /\ closes(k) # 0
                    /\ MatchAt(QuoteClose, s, closes(k))}
    IN  IF hits = {} THEN <<0, 0>>
        ELSE LET k == CHOOSE h \in hits : \A m \in hits : h <= m
             IN  <<k, closes(k)>>

\* match.group(1) of a QuotedSearch match
QuotedGroup(open, s) ==
    LET m == QuotedSearch(open, s)
    IN  SubSeq(s, m[1] + Len(open), m[2] - 1)

\* the code point order of two characters
Ord(c) ==
    CHOOSE k \in 1..Len(Ascii) : Ascii[k] = c

\* a < b for str
RECURSIVE StrLess(_, _)
StrLess(a, b) ==
    IF b = <<>> THEN FALSE
    ELSE IF a = <<>> THEN TRUE
    ELSE IF a[1] # b[1] THEN Ord(a[1]) < Ord(b[1])
    ELSE StrLess(Tail(a), Tail(b))

\* str(n) for n >= 0
RECURSIVE IntToStr(_)
IntToStr(n) ==
    IF n < 10 THEN <<Digits[n + 1]>>
    ELSE IntToStr(n \div 10) \o <<Digits[(n % 10) + 1]>>

\* ------------------------------------------------------------------------
\* The pattern catalog (__init__)
\* ------------------------------------------------------------------------

unwrap_pattern(line) ==
    Contains(line, DotUnwrap)

expect_pattern(line) ==
    QuotedSearch(ExpectOpen, line)[1] # 0

panic_pattern(line) ==
    Contains(line, PanicOpen)

test_pattern(line) ==
    \/ Contains(line, CfgTest)
    \/ Contains(line, TestAttr)
    \/ Contains(line, ModTests)

\* ------------------------------------------------------------------------
\* Paths
\* ------------------------------------------------------------------------

\* str(file): parent and name joined
PathStr(file) ==
    file.dir \o Slash \o file.name

\* variant: the name rule looks for "tests"
KeepFileNameTests(file) ==
    ~ (Contains(file.name, DirTests) \/ Contains(file.dir, DirTests))

\* the test of line 26, negated: the file is kept
KeepFile(file) ==
    ~ (Contains(file.name, NameTest) \/ Contains(file.dir, DirTests))

\* rglob("*.rs") yields the entries whose name matches *.rs
RglobMatch(file) ==
    EndsWith(file.name, RsSuffix)

\* ------------------------------------------------------------------------
\* Suggestion engine
\* ------------------------------------------------------------------------

\* variant: the parse rule is tried before the lock rule
suggest_unwrap_fix_parse_first(line) ==
    IF Contains(line, ParseUnwrap) THEN Replace(line, DotUnwrap, ParseFix)
    ELSE IF Contains(line, LockUnwrap) THEN Replace(line, DotUnwrap, LockFix)
    ELSE IF Contains(line, ToStringUnwrap) THEN Replace(line, DotUnwrap, ConversionFix)
    ELSE Replace(line, DotUnwrap, BareFix)

suggest_unwrap_fix(line) ==
    IF Contains(line, LockUnwrap) THEN Replace(line, DotUnwrap, LockFix)
    ELSE IF Contains(line, ParseUnwrap) THEN Replace(line, DotUnwrap, ParseFix)
    ELSE IF Contains(line, ToStringUnwrap) THEN Replace(line, DotUnwrap, ConversionFix)
    ELSE Replace(line, DotUnwrap, BareFix)

suggest_expect_fix(line) ==
    IF expect_pattern(line)
    THEN LET error_msg == QuotedGroup(ExpectOpen, line)
         IN  Replace(line, ExpectOpen \o error_msg \o QuoteClose,
                     ExpectFixOpen \o error_msg \o ExpectFixClose)
    ELSE line

suggest_panic_fix(line) ==
    IF Contains(line, PanicOpen)
    THEN IF QuotedSearch(PanicMsgOpen, line)[1] # 0
         THEN PanicFixOpen \o QuotedGroup(PanicMsgOpen, line) \o PanicFixClose
         ELSE PanicFixOpen \o UnexpectedError \o PanicFixClose
    ELSE line

Kinds ==
    <<"unwrap", "expect", "panic">>

Suggest(issue_type, line_content) ==
    CASE issue_type = "unwrap" -> suggest_unwrap_fix(line_content)
      [] issue_type = "expect" -> suggest_expect_fix(line_content)
      [] issue_type = "panic" -> suggest_panic_fix(line_content)

\* the suggestions of one kind, in the order of its occurrences
SuggestionsOf(file_path, iss, issue_type) ==
    [k \in 1..Len(iss[issue_type]) |->
        [file |-> PathStr(file_path),
         line |-> iss[issue_type][k].line,
         type |-> issue_type,
         original |-> iss[issue_type][k].text,
         suggestion |-> Suggest(issue_type, iss[issue_type][k].text)]]

\* variant: the kinds are iterated panic, expect, unwrap
generate_fix_suggestions_reversed(file_path, iss) ==
    SuggestionsOf(file_path, iss, Kinds[3])
        \o SuggestionsOf(file_path, iss, Kinds[2])
        \o SuggestionsOf(file_path, iss, Kinds[1])

\* issues.items() is iterated in insertion order: unwrap, expect, panic
generate_fix_suggestions(file_path, iss) ==
    SuggestionsOf(file_path, iss, Kinds[1])
        \o SuggestionsOf(file_path, iss, Kinds[2])
        \o SuggestionsOf(file_path, iss, Kinds[3])

\* ------------------------------------------------------------------------
\* Line analyzer: one iteration of the loop of analyze_file
\* ------------------------------------------------------------------------

EmptyIssues ==
    [unwrap |-> <<>>, expect |-> <<>>, panic |-> <<>>]

\* variant: the flag follows the current line only
FlagAfterNotSticky(flag, line) ==
    test_pattern(line)

\* lines 46-47: the flag after the marker test of this line
FlagAfter(flag, line) ==
    flag \/ test_pattern(line)

\* line 50: the continue
SkipLine(flag, line) ==
    flag /\ ~ StartsWith(Strip(line), CommentStart)

\* variant: the three checks chained with elif
ClassifyFirstMatch(iss, n, line) ==
    LET hit == [line |-> n, text |-> Strip(line)]
    IN  IF unwrap_pattern(line) THEN [iss EXCEPT !.unwrap = Append(@, hit)]
        ELSE IF expect_pattern(line) THEN [iss EXCEPT !.expect = Append(@, hit)]
        ELSE IF panic_pattern(line) THEN [iss EXCEPT !.panic = Append(@, hit)]
        ELSE iss

\* lines 54-64: the three independent checks, n the 1-based line number
Classify(iss, n, line) ==
    LET hit == [line |-> n, text |-> Strip(line)]
        u == IF unwrap_pattern(line) THEN Append(iss.unwrap, hit) ELSE iss.unwrap
        e == IF expect_pattern(line) THEN Append(iss.expect, hit) ELSE iss.expect
        p == IF panic_pattern(line) THEN Append(iss.panic, hit) ELSE iss.panic
    IN  [unwrap |-> u, expect |-> e, panic |-> p]

\* lines 43-64: the loop from line k on
RECURSIVE ScanLines(_, _, _, _)
ScanLines(ls, k, flag, iss) ==
    IF k > Len(ls) THEN iss
    ELSE LET f == FlagAfter(flag, ls[k])
         IN  ScanLines(ls, k + 1, f,
                 IF SkipLine(f, ls[k]) THEN iss ELSE Classify(iss, k, ls[k]))

\* any(issues.values())
AnyIssues(iss) ==
    \E k \in DOMAIN Kinds : iss[Kinds[k]] # <<>>

\* variant: a file counts once per kind
AddTotalPerFile(total, iss, kind) ==
    IF iss[kind] # <<>> THEN total + 1 ELSE total

\* lines 143-145
AddTotal(total, iss, kind) ==
    total + Len(iss[kind])

\* ------------------------------------------------------------------------
\* Report generator and fix-script emitter
\* ------------------------------------------------------------------------

\* lines 158-163: group by file, a dict in insertion order, as a sequence of
\* [file, issues] items
RECURSIVE GroupByFile(_, _)
GroupByFile(all, acc) ==
    IF all = <<>> THEN acc
    ELSE LET issue == Head(all)
             at == {k \in 1..Len(acc) : acc[k].file = issue.file}
         IN  IF at = {}
             THEN GroupByFile(Tail(all),
                      Append(acc, [file |-> issue.file, issues |-> <<issue>>]))
             ELSE LET k == CHOOSE x \in at : TRUE
                  IN  GroupByFile(Tail(all),
                          [acc EXCEPT ![k].issues = Append(@, issue)])

\* variant: the items in insertion order
UnsortedItems(items) ==
    items

\* sorted(issues_by_file.items()): the keys are distinct, so the order is
\* the order of the file strings
RECURSIVE SortedItems(_)
SortedItems(items) ==
    IF items = <<>> THEN <<>>
    ELSE LET k == CHOOSE x \in 1..Len(items) :
                      \A y \in 1..Len(items) : ~ StrLess(items[y].file, items[x].file)
             rest == [j \in 1..(Len(items) - 1) |->
                         IF j < k THEN items[j] ELSE items[j + 1]]
         IN  <<items[k]>> \o SortedItems(rest)

\* lines 170-174: the detail printed for the items of one file
RECURSIVE DetailOf(_)
DetailOf(items) ==
    IF items = <<>> THEN <<>>
    ELSE <<[kind |-> "file", file |-> Head(items).file]>>
            \o [k \in 1..Len(Head(items).issues) |->
                   [kind |-> "issue", issue |-> Head(items).issues[k]]]
            \o DetailOf(Tail(items))

\* variant: the sed command is written without the leading #
ScriptEntryLive(file, issue) ==
    CASE issue.type = "unwrap" ->
            HashLine \o IntToStr(issue.line) \o ReplaceUnwrap
                \o SubSeq(SedCommand, 3, Len(SedCommand)) \o file \o NL
      [] issue.type = "expect" ->
            HashLine \o IntToStr(issue.line) \o ReplaceExpect \o ManualFix
      [] issue.type = "panic" ->
            HashLine \o IntToStr(issue.line) \o ReplacePanic \o ManualFix

\* lines 190-198: the two lines written for one issue
ScriptEntry(file, issue) ==
    CASE issue.type = "unwrap" ->
            HashLine \o IntToStr(issue.line) \o ReplaceUnwrap \o SedCommand \o file \o NL
      [] issue.type = "expect" ->
            HashLine \o IntToStr(issue.line) \o ReplaceExpect \o ManualFix
      [] issue.type = "panic" ->
            HashLine \o IntToStr(issue.line) \o ReplacePanic \o ManualFix

RECURSIVE ScriptIssues(_, _)
ScriptIssues(file, file_issues) ==
    IF file_issues = <<>> THEN <<>>
    ELSE ScriptEntry(file, Head(file_issues)) \o ScriptIssues(file, Tail(file_issues))

\* lines 186-198: issues_by_file.items() in insertion order
RECURSIVE ScriptFiles(_)
ScriptFiles(items) ==
    IF items = <<>> THEN <<>>
    ELSE FixesFor \o Head(items).file \o NL
            \o ScriptIssues(Head(items).file, Head(items).issues)
            \o ScriptFiles(Tail(items))

\* ------------------------------------------------------------------------
\* Bounds and inputs
\* ------------------------------------------------------------------------

MaxFiles == 2
MaxLines == 3
MaxFrags == 4

LinePlain ==
    <<"l", "e", "t", " ", "x", ";", "\n">>
LineUnwrap ==
    <<" ", " ", "a", ".", "u", "n", "w", "r", "a", "p", "(", ")", ";", "\n">>
LineExpect ==
    <<"b", ".", "e", "x", "p", "e", "c", "t", "(", "\"", "m", "\"", ")", ";", "\n">>
LinePanic ==
    <<"p", "a", "n", "i", "c", "!", "(", "\"", "p", "\"", ")", ";", "\n">>
LineAll ==
    <<"c", ".", "u", "n", "w", "r", "a", "p", "(", ")", ".", "e", "x", "p", "e", "c", "t", "(",
      "\"", "m", "\"", ")", ";", " ", "p", "a", "n", "i", "c", "!", "(", ")", "\n">>
LineMod ==
    <<"m", "o", "d", " ", "t", "e", "s", "t", "s", " ", "{", "\n">>
LineAttrUnwrap ==
    <<"#", "[", "t", "e", "s", "t", "]", " ", "d", ".", "u", "n", "w", "r", "a", "p", "(", ")",
      "\n">>
LineCommentUnwrap ==
    <<"/", "/", " ", "e", ".", "u", "n", "w", "r", "a", "p", "(", ")", "\n">>
LineCommentCfg ==
    <<" ", " ", "/", "/", " ", "#", "[", "c", "f", "g", "(", "t", "e", "s", "t", ")", "]", " ",
      "p", "a", "n", "i", "c", "!", "(", "\n">>
FragSpace ==
    <<" ">>
FragX ==
    <<"x">>
FragLock ==
    <<"l", "o", "c", "k", "(", ")">>
FragParse ==
    <<"p", "a", "r", "s", "e", "(", ")">>
FragToString ==
    <<"t", "o", "_", "s", "t", "r", "i", "n", "g", "(", ")">>
DirSrc ==
    <<"s", "r", "c">>
DirTest ==
    <<"t", "e", "s", "t">>
DirMyTests ==
    <<"m", "y", "t", "e", "s", "t", "s">>
NameA ==
    <<"a", ".", "r", "s">>
NameZ ==
    <<"Z", ".", "r", "s">>
NameM ==
    <<"m", ".", "r", "s">>
NameUpperTest ==
    <<"T", "e", "s", "t", ".", "r", "s">>
NameContest ==
    <<"c", "o", "n", "t", "e", "s", "t", ".", "r", "s">>
NameTxt ==
    <<"a", ".", "t", "x", "t">>

SeqsUpTo(S, n) ==
    UNION {[1..k -> S] : k \in 0..n}

RECURSIVE Concat(_)
Concat(ss) ==
    IF ss = <<>> THEN <<>> ELSE Head(ss) \o Concat(Tail(ss))

Path(d, n) ==
    [dir |-> d, name |-> n]

\* candidate entries under the root: kept .rs files, files the name rule or
\* the directory rule drops, and a file rglob does not match
Paths ==
    {Path(DirSrc, NameA), Path(DirSrc, NameZ), Path(DirTest, NameM),
     Path(DirSrc, NameUpperTest), Path(DirSrc, NameContest),
     Path(DirMyTests, NameA), Path(DirSrc, NameTxt)}

LineCatalogue ==
    {LineUnwrap, LineExpect, LineAll, LineMod, LineAttrUnwrap, LineCommentUnwrap,
     LineCommentCfg}

\* file contents of the multi-file trees
TreeContents ==
    {<<LinePanic, LineUnwrap, LineAll>>, <<LinePlain>>,
     <<LineExpect, LineMod, LineUnwrap, LineCommentCfg>>}

Fragments ==
    {FragSpace, FragX, FragLock, FragParse, FragToString, DotUnwrap}

File(ls, r) ==
    [lines |-> ls, readable |-> r]

\* an unreadable file has contents too; open() or readlines() raises on it
TreeFiles ==
    {File(c, TRUE) : c \in TreeContents} \cup {File(<<LineAll>>, FALSE)}

Trees ==
    UNION {[P -> TreeFiles] : P \in {Q \in SUBSET Paths : Cardinality(Q) <= MaxFiles}}

\* one file with any contents, or unreadable, alone or beside a file that
\* holds a test marker
FileTrees ==
    LET files == {File(c, TRUE) : c \in SeqsUpTo(LineCatalogue, MaxLines)}
                    \cup {File(<<LineAll>>, FALSE)}
        one == {[P \in {Path(DirSrc, NameA)} |-> f] : f \in files}
        other == [P \in {Path(DirSrc, NameZ)} |-> File(<<LineMod, LinePanic>>, TRUE)]
    IN  one \cup {t @@ other : t \in one}

\* one file of one line put together from the fragments, or unreadable
OneLineTrees ==
    LET files == {File(<<Concat(fs) \o NL>>, TRUE) : fs \in SeqsUpTo(Fragments, MaxFrags)}
                    \cup {File(<<LineAll>>, FALSE)}
    IN  {[P \in {Path(DirSrc, NameA)} |-> f] : f \in files}

Perms(S) ==
    {p \in [1..Cardinality(S) -> S] : \A a, b \in 1..Cardinality(S) : p[a] = p[b] => a = b}

\* ------------------------------------------------------------------------
\* State
\* ------------------------------------------------------------------------

VARIABLES
    tree,            \* the files under root_dir: path -> [lines, readable]
    pc,              \* position in generate_report
    rust_files,      \* result of find_rust_files
    file_idx,        \* position of the for loop of generate_report, 1-based
    lines,           \* analyze_file: f.readlines()
    i,               \* analyze_file: enumerate index, 0-based
    in_test_block,   \* analyze_file
    issues,          \* analyze_file
    all_issues,      \* generate_report
    total_unwraps,
    total_expects,
    total_panics,
    issues_by_file,  \* generate_report, dict in insertion order
    stdout,          \* what print() wrote, one record per message
    script           \* the text of apply_unwrap_fixes.sh

vars ==
    <<tree, pc, rust_files, file_idx, lines, i, in_test_block, issues, all_issues,
      total_unwraps, total_expects, total_panics, issues_by_file, stdout, script>>

Start ==
    /\ pc = "find"
    /\ rust_files = <<>>
    /\ file_idx = 1
    /\ lines = <<>>
    /\ i = 0
    /\ in_test_block = FALSE
    /\ issues = EmptyIssues
    /\ all_issues = <<>>
    /\ total_unwraps = 0
    /\ total_expects = 0
    /\ total_panics = 0
    /\ issues_by_file = <<>>
    /\ stdout = <<>>
    /\ script = <<>>

Init ==
    /\ tree \in Trees
    /\ Start

InitFile ==
    /\ tree \in FileTrees
    /\ Start

InitLine ==
    /\ tree \in OneLineTrees
    /\ Start

\* variant: reading never fails
AlwaysReadable(file) ==
    TRUE

\* open() and readlines() succeed
CanRead(file) ==
    tree[file].readable

\* analyze_file as a function of the file
analyze_file(file) ==
    IF CanRead(file) THEN ScanLines(tree[file].lines, 1, FALSE, EmptyIssues)
    ELSE EmptyIssues

\* find_rust_files, then line 135.  rglob yields the matching entries in an
\* order the platform chooses.
FindRustFiles ==
    /\ pc = "find"
    /\ \E order \in Perms({f \in DOMAIN tree : RglobMatch(f)}) :
          /\ rust_files' = SelectSeq(order, KeepFile)
          /\ stdout' = Append(stdout, [kind |-> "analyzing", n |-> Len(rust_files')])
    /\ pc' = "open"
    /\ UNCHANGED <<tree, file_idx, lines, i, in_test_block, issues, all_issues,
                   total_unwraps, total_expects, total_panics, issues_by_file, script>>

\* analyze_file, lines 33-43: the file is read
OpenFile ==
    /\ pc = "open"
    /\ file_idx <= Len(rust_files)
    /\ CanRead(rust_files[file_idx])
    /\ lines' = tree[rust_files[file_idx]].lines
    /\ i' = 0
    /\ in_test_block' = FALSE
    /\ issues' = EmptyIssues
    /\ pc' = "scan"
    /\ UNCHANGED <<tree, rust_files, file_idx, all_issues, total_unwraps, total_expects,
                   total_panics, issues_by_file, stdout, script>>

\* analyze_file, lines 39-41 and 66-69: reading raises, the message is
\* printed and the empty issues are returned; line 139 is then false
OpenFails ==
    /\ pc = "open"
    /\ file_idx <= Len(rust_files)
    /\ ~ CanRead(rust_files[file_idx])
    /\ issues' = EmptyIssues
    /\ stdout' = Append(stdout, [kind |-> "error", file |-> PathStr(rust_files[file_idx])])
    /\ file_idx' = file_idx + 1
    /\ UNCHANGED <<tree, pc, rust_files, lines, i, in_test_block, all_issues,
                   total_unwraps, total_expects, total_panics, issues_by_file, script>>

\* analyze_file, lines 44-64: one iteration
AnalyzeLine ==
    /\ pc = "scan"
    /\ i < Len(lines)
    /\ LET line == lines[i + 1]
           flag == FlagAfter(in_test_block, line)
       IN  /\ in_test_block' = flag
           /\ issues' = IF SkipLine(flag, line) THEN issues
                        ELSE Classify(issues, i + 1, line)
    /\ i' = i + 1
    /\ UNCHANGED <<tree, pc, rust_files, file_idx, lines, all_issues, total_unwraps,
                   total_expects, total_panics, issues_by_file, stdout, script>>

\* analyze_file returns; generate_report, lines 139-145
FoldFile ==
    /\ pc = "scan"
    /\ i = Len(lines)
    /\ IF AnyIssues(issues)
       THEN /\ all_issues' = all_issues
                    \o generate_fix_suggestions(rust_files[file_idx], issues)
            /\ total_unwraps' = AddTotal(total_unwraps, issues, "unwrap")
            /\ total_expects' = AddTotal(total_expects, issues, "expect")
            /\ total_panics' = AddTotal(total_panics, issues, "panic")
       ELSE UNCHANGED <<all_issues, total_unwraps, total_expects, total_panics>>
    /\ file_idx' = file_idx + 1
    /\ pc' = "open"
    /\ UNCHANGED <<tree, rust_files, lines, i, in_test_block, issues, issues_by_file,
                   stdout, script>>

\* generate_report, lines 147-174
PrintReport ==
    /\ pc = "open"
    /\ file_idx > Len(rust_files)
    /\ issues_by_file' = GroupByFile(all_issues, <<>>)
    /\ stdout' = stdout
            \o <<[kind |-> "summary",
                  unwraps |-> total_unwraps,
                  expects |-> total_expects,
                  panics |-> total_panics,
                  total |-> total_unwraps + total_expects + total_panics]>>
            \o DetailOf(SortedItems(issues_by_file'))
    /\ pc' = "script"
    /\ UNCHANGED <<tree, rust_files, file_idx, lines, i, in_test_block, issues,
                   all_issues, total_unwraps, total_expects, total_panics, script>>

\* generate_fix_script
GenerateFixScript ==
    /\ pc = "script"
    /\ script' = ScriptHeader \o ScriptFiles(issues_by_file)
    /\ stdout' = Append(stdout, [kind |-> "script"])
    /\ pc' = "done"
    /\ UNCHANGED <<tree, rust_files, file_idx, lines, i, in_test_block, issues,
                   all_issues, total_unwraps, total_expects, total_panics,
                   issues_by_file>>

Next ==
    \/ FindRustFiles
    \/ OpenFile
    \/ OpenFails
    \/ AnalyzeLine
    \/ FoldFile
    \/ PrintReport
    \/ GenerateFixScript

Spec == Init /\ [][Next]_vars

SpecFile == InitFile /\ [][Next]_vars

SpecLine == InitLine /\ [][Next]_vars

\* ------------------------------------------------------------------------
\* Vocabulary of the properties
\* ------------------------------------------------------------------------

\* a test-region marker at or before line n of ls
MarkedBy(ls, n) ==
    \E m \in 1..n : test_pattern(ls[m])

IsComment(line) ==
    StartsWith(Strip(line), CommentStart)

Matches(kind, line) ==
    CASE kind = "unwrap" -> unwrap_pattern(line)
      [] kind = "expect" -> expect_pattern(line)
      [] kind = "panic" -> panic_pattern(line)

KindSet ==
    {"unwrap", "expect", "panic"}

\* the entries of issues[kind] for line n
HitsAt(kind, n) ==
    {k \in 1..Len(issues[kind]) : issues[kind][k].line = n}

Scanning ==
    pc = "scan"

\* ------------------------------------------------------------------------
\* C1
\* ------------------------------------------------------------------------

C1_NoFindingInTestRegion ==
    Scanning =>
        /\ in_test_block = MarkedBy(lines, i)
        /\ \A n \in 1..i : \A kind \in KindSet :
              (MarkedBy(lines, n) /\ ~ IsComment(lines[n])) => HitsAt(kind, n) = {}

C1_FlagNeverReset ==
    (Scanning /\ in_test_block) => in_test_block'

\* C1: a line at or after the first test-region marker of its file whose
\* trimmed text does not start with // yields no Finding of any kind, and the
\* in-test flag, once true, stays true while that file is scanned.
C1_StickySkip ==
    /\ [] C1_NoFindingInTestRegion
    /\ [][C1_FlagNeverReset]_vars

\* a line matching a risky signature was skipped after an earlier marker
\* line, and a line before the marker was reported
C1_Witness ==
    /\ Scanning
    /\ i = 3
    /\ ~ test_pattern(lines[1]) /\ HitsAt("unwrap", 1) # {}
    /\ test_pattern(lines[2])
    /\ ~ test_pattern(lines[3]) /\ unwrap_pattern(lines[3]) /\ ~ IsComment(lines[3])
    /\ HitsAt("unwrap", 3) = {}
    /\ in_test_block

\* ------------------------------------------------------------------------
\* C2
\* ------------------------------------------------------------------------

\* C2: no Finding has a test-region marker at or before its line in the same
\* file.
C2_FindingsOutsideTestRegion ==
    Scanning =>
        \A kind \in KindSet : \A k \in 1..Len(issues[kind]) :
            ~ MarkedBy(lines, issues[kind][k].line)

\* ------------------------------------------------------------------------
\* C10
\* ------------------------------------------------------------------------

Analysed(ls, n) ==
    ~ MarkedBy(ls, n) \/ IsComment(ls[n])

Reported ==
    pc \in {"script", "done"}

IsSummary(m) ==
    m.kind = "summary"

IsDetail(m) ==
    m.kind \in {"file", "issue"}

IsIssue(m) ==
    m.kind = "issue"

\* the totals summary printed
Summary ==
    SelectSeq(stdout, IsSummary)[1]

\* the per-file section printed
Detail ==
    SelectSeq(stdout, IsDetail)

\* the Findings of the per-file section, in printed order
DetailIssues ==
    LET d == SelectSeq(stdout, IsIssue)
    IN  [k \in 1..Len(d) |-> d[k].issue]

CountOf(all, kind) ==
    Cardinality({k \in 1..Len(all) : all[k].type = kind})

\* ------------------------------------------------------------------------
\* C3
\* ------------------------------------------------------------------------

\* C3: each printed per-kind total is the number of Findings of that kind in
\* all_issues; the grand total is their sum and the number of Findings of
\* the per-file section, which lists every Finding of all_issues once.
C3_Totals ==
    Reported =>
        LET sum == Summary
            listed == DetailIssues
        IN  /\ sum.unwraps = CountOf(all_issues, "unwrap")
            /\ sum.expects = CountOf(all_issues, "expect")
            /\ sum.panics = CountOf(all_issues, "panic")
            /\ sum.total = sum.unwraps + sum.expects + sum.panics
            /\ sum.total = Len(listed)
            /\ Len(listed) = Len(all_issues)
            /\ \A k \in 1..Len(all_issues) :
                  Cardinality({j \in 1..Len(listed) : listed[j] = all_issues[k]}) = 1

\* two files contributed, one of them several Findings of one kind
C3_Witness ==
    /\ pc = "done"
    /\ Summary.unwraps >= 2
    /\ Summary.panics >= 1
    /\ Summary.total >= 3
    /\ Len(issues_by_file) = 2

\* the empty tree: all-zero totals
C3_WitnessEmpty ==
    /\ pc = "done"
    /\ DOMAIN tree = {}
    /\ Summary.total = 0

\* ------------------------------------------------------------------------
\* C4
\* ------------------------------------------------------------------------

\* the file headers of the per-file section, in printed order
DetailFiles ==
    LET IsFile(m) == m.kind = "file"
        d == SelectSeq(stdout, IsFile)
    IN  [k \in 1..Len(d) |-> d[k].file]

FilesSorted ==
    LET files == DetailFiles
    IN  \A a, b \in 1..Len(files) : a < b => StrLess(files[a], files[b])

\* the Findings of one file are printed together
FilesContiguous ==
    LET listed == DetailIssues
    IN  \A a, b, c \in 1..Len(listed) :
            (a < b /\ b < c /\ listed[a].file = listed[c].file)
                => listed[b].file = listed[a].file

KindRank(kind) ==
    CHOOSE k \in DOMAIN Kinds : Kinds[k] = kind

\* C4 as stated: files sorted by path and, within a file, non-decreasing
\* line numbers whatever the kinds.
C4_LineOrder ==
    Reported =>
        LET listed == DetailIssues
        IN  /\ FilesSorted
            /\ \A a, b \in 1..Len(listed) :
                  (a < b /\ listed[a].file = listed[b].file)
                      => listed[a].line <= listed[b].line

\* C4 amended: files sorted by path and, within a file, the Findings grouped
\* by kind in the order unwrap, expect, panic, with increasing line numbers
\* within each kind.
C4_KindThenLineOrder ==
    Reported =>
        LET listed == DetailIssues
        IN  /\ FilesSorted
            /\ FilesContiguous
            /\ \A a, b \in 1..Len(listed) :
                  (a < b /\ listed[a].file = listed[b].file)
                      => \/ KindRank(listed[a].type) < KindRank(listed[b].type)
                         \/ /\ listed[a].type = listed[b].type
                            /\ listed[a].line < listed[b].line

\* two files were found in descending path order and printed ascending; one
\* lists an unwrap of a later line before a panic of an earlier line
C4_Witness ==
    /\ pc = "done"
    /\ Len(DetailFiles) = 2
    /\ Len(issues_by_file) = 2
    /\ StrLess(issues_by_file[2].file, issues_by_file[1].file)
    /\ LET listed == DetailIssues
       IN  \E a, b \in 1..Len(listed) :
              /\ a < b
              /\ listed[a].file = listed[b].file
              /\ listed[a].type = "unwrap" /\ listed[b].type = "panic"
              /\ listed[a].line > listed[b].line

\* ------------------------------------------------------------------------
\* C5
\* ------------------------------------------------------------------------

\* the files find_rust_files keeps, whatever the order it yields them in
KeptFiles ==
    {f \in DOMAIN tree : RglobMatch(f) /\ KeepFile(f)}

\* the files of S in ascending path order
Ascending(S) ==
    CHOOSE p \in Perms(S) :
        \A a, b \in 1..Len(p) : a < b => StrLess(PathStr(p[a]), PathStr(p[b]))

\* the Findings of each of the files fs, in that order, analysis giving the
\* issues of each
RECURSIVE FindingsOf(_, _)
FindingsOf(fs, analysis) ==
    IF fs = <<>> THEN <<>>
    ELSE <<generate_fix_suggestions(Head(fs), analysis[Head(fs)])>>
            \o FindingsOf(Tail(fs), analysis)

\* the per-file section for the per-file Findings found
RECURSIVE SectionOf(_)
SectionOf(found) ==
    IF found = <<>> THEN <<>>
    ELSE (IF Head(found) = <<>> THEN <<>>
          ELSE <<[kind |-> "file", file |-> Head(found)[1].file]>>
                  \o [k \in 1..Len(Head(found)) |->
                         [kind |-> "issue", issue |-> Head(found)[k]]])
             \o SectionOf(Tail(found))

SummaryOf(found) ==
    LET all == Concat(found)
    IN  [kind |-> "summary",
         unwraps |-> CountOf(all, "unwrap"),
         expects |-> CountOf(all, "expect"),
         panics |-> CountOf(all, "panic"),
         total |-> Len(all)]

\* what analyze_file returns for each kept file
AsRead ==
    [f \in KeptFiles |-> analyze_file(f)]

\* C5: the printed totals and per-file section are those of the tree's kept
\* files taken in ascending path order, whatever order find_rust_files
\* yielded them in: they depend on the tree alone.
C5_Deterministic ==
    pc = "done" =>
        LET found == FindingsOf(Ascending(KeptFiles), AsRead)
        IN  /\ Summary = SummaryOf(found)
            /\ Detail = SectionOf(found)

\* two files with Findings were yielded in descending path order
C5_Witness ==
    /\ pc = "done"
    /\ Len(rust_files) = 2
    /\ StrLess(PathStr(rust_files[2]), PathStr(rust_files[1]))
    /\ Len(issues_by_file) = 2
    /\ Summary.total >= 2

\* ------------------------------------------------------------------------
\* C6
\* ------------------------------------------------------------------------

\* the text split at its newlines (the part after the last newline is
\* dropped when empty)
SplitLines(text) ==
    LET ends == {k \in 1..Len(text) : text[k] = "\n"} \cup {Len(text) + 1}
        end(j) == CHOOSE k \in ends : Cardinality({m \in ends : m <= k}) = j
        start(j) == IF j = 1 THEN 1 ELSE end(j - 1) + 1
        all == [j \in 1..Cardinality(ends) |-> SubSeq(text, start(j), end(j) - 1)]
    IN  IF all[Len(all)] = <<>> THEN SubSeq(all, 1, Len(all) - 1) ELSE all

SedLine(file) ==
    SedCommand \o file

ManualLine ==
    SubSeq(ManualFix, 1, Len(ManualFix) - 1)

IsLineNote(l) ==
    StartsWith(l, HashLine)

IsFilesNote(l) ==
    StartsWith(l, Tail(FixesFor))

\* the entries of the script: its lines but the header, the blank lines, the
\* "Fixes for" lines and the "Line n" lines
ScriptEntries ==
    LET all == SplitLines(script)
        IsEntry(l) == l # <<>> /\ ~ IsLineNote(l) /\ ~ IsFilesNote(l)
    IN  SelectSeq(SubSeq(all, 4, Len(all)), IsEntry)

\* the Findings of the grouped structure, in its order
RECURSIVE Flatten(_)
Flatten(items) ==
    IF items = <<>> THEN <<>> ELSE Head(items).issues \o Flatten(Tail(items))

\* C6: the script holds one entry per Finding of the grouped structure, in
\* the same order: the commented-out sed substitution for an unwrap, the
\* "Manual fix needed" marker for an expect or a panic; every line of the
\* script that is not blank starts with #.
C6_ScriptEntries ==
    pc = "done" =>
        LET written == SplitLines(script)
            entries == ScriptEntries
            found == Flatten(issues_by_file)
        IN  /\ Len(entries) = Len(found)
            /\ \A k \in 1..Len(entries) :
                  entries[k] = IF found[k].type = "unwrap" THEN SedLine(found[k].file)
                               ELSE ManualLine
            /\ \A k \in 1..Len(written) : written[k] # <<>> => Head(written[k]) = "#"

\* a script with entries of all three kinds for two files
C6_Witness ==
    /\ pc = "done"
    /\ Len(issues_by_file) = 2
    /\ \A kind \in KindSet : \E k \in 1..Len(all_issues) : all_issues[k].type = kind
    /\ Len(ScriptEntries) >= 3
    /\ \E k \in 1..Len(ScriptEntries) : ScriptEntries[k] = ManualLine

\* ------------------------------------------------------------------------
\* C7
\* ------------------------------------------------------------------------

\* the scan of each file's lines, were they read
AsScanned ==
    [f \in KeptFiles |-> ScanLines(tree[f].lines, 1, FALSE, EmptyIssues)]

ReadableKept ==
    {f \in KeptFiles : tree[f].readable}

IsError(m) ==
    m.kind = "error"

\* C7: a file that cannot be read yields no Finding and one error message,
\* and the totals and the per-file section are those of the tree without the
\* files that cannot be read.
C7_ReadFailureIsolated ==
    pc = "done" =>
        /\ \A f \in KeptFiles \ ReadableKept :
              /\ \A k \in 1..Len(all_issues) : all_issues[k].file # PathStr(f)
              /\ Cardinality({k \in 1..Len(stdout) :
                     stdout[k] = [kind |-> "error", file |-> PathStr(f)]}) = 1
        /\ Len(SelectSeq(stdout, IsError)) = Cardinality(KeptFiles \ ReadableKept)
        /\ LET found == FindingsOf(Ascending(ReadableKept), AsScanned)
           IN  /\ Summary = SummaryOf(found)
               /\ Detail = SectionOf(found)

\* the first file could not be read and the second one contributed Findings
C7_Witness ==
    /\ pc = "done"
    /\ Len(rust_files) = 2
    /\ ~ tree[rust_files[1]].readable
    /\ tree[rust_files[2]].readable
    /\ Len(SelectSeq(stdout, IsError)) = 1
    /\ Summary.total >= 1

\* ------------------------------------------------------------------------
\* C8
\* ------------------------------------------------------------------------

\* C8: find_rust_files returns, once each, exactly the entries whose name
\* ends in .rs, whose name does not contain "test" and whose directory path
\* does not contain "tests".
C8_Discovery ==
    pc # "find" =>
        /\ {rust_files[k] : k \in 1..Len(rust_files)} =
              {f \in DOMAIN tree :
                  /\ EndsWith(f.name, RsSuffix)
                  /\ ~ Contains(f.name, NameTest)
                  /\ ~ Contains(f.dir, DirTests)}
        /\ \A a, b \in 1..Len(rust_files) : rust_files[a] = rust_files[b] => a = b

\* a file named contest.rs was dropped and a file named Test.rs was kept
C8_Witness ==
    /\ pc # "find"
    /\ DOMAIN tree = {Path(DirSrc, NameContest), Path(DirSrc, NameUpperTest)}
    /\ rust_files = <<Path(DirSrc, NameUpperTest)>>

\* ------------------------------------------------------------------------
\* C9
\* ------------------------------------------------------------------------

\* the replacement text the first matching rule gives
RuleFor(original) ==
    IF Contains(original, LockUnwrap) THEN LockFix
    ELSE IF Contains(original, ParseUnwrap) THEN ParseFix
    ELSE IF Contains(original, ToStringUnwrap) THEN ConversionFix
    ELSE BareFix

\* the number of occurrences of p in s, left to right without overlap
RECURSIVE Occurrences(_, _, _)
Occurrences(s, p, from) ==
    LET k == FindFrom(s, p, from)
    IN  IF k = 0 THEN 0 ELSE 1 + Occurrences(s, p, k + Len(p))

\* C9: the suggestion of an unwrap Finding carries the replacement text of
\* the first rule, in the order lock, parse, to_string, bare, that its line
\* matches, in place of every .unwrap(), and is otherwise the line: putting
\* .unwrap() back for the replacement text gives the line again.
C9_UnwrapRules ==
    \A k \in 1..Len(all_issues) :
        all_issues[k].type = "unwrap" =>
            LET original == all_issues[k].original
                suggestion == all_issues[k].suggestion
            IN  /\ ~ Contains(suggestion, DotUnwrap)
                /\ Occurrences(suggestion, RuleFor(original), 1)
                      = Occurrences(original, DotUnwrap, 1)
                /\ Replace(suggestion, RuleFor(original), DotUnwrap) = original

\* a line with both lock().unwrap() and parse().unwrap() got the lock rule
C9_Witness ==
    \E k \in 1..Len(all_issues) :
        /\ all_issues[k].type = "unwrap"
        /\ Contains(all_issues[k].original, LockUnwrap)
        /\ Contains(all_issues[k].original, ParseUnwrap)
        /\ Occurrences(all_issues[k].suggestion, LockFix, 1) = 2
        /\ ~ Contains(all_issues[k].suggestion, ParseFix)

====
